---------------------------- MODULE Spec2Model ----------------------------
(***************************************************************************)
(* Model of src/src/cdk/ecs.py: HealthCheckConfig, its two derived timing  *)
(* bounds and its three configuration getters.                              *)
(*                                                                         *)
(* The state is one HealthCheckConfig object (cfg) together with, for each *)
(* of the five operations of the class, the outcome of the most recent     *)
(* call made on that object (out).  An outcome is either a returned value  *)
(* or a raised ValueError.  The class holds no other state: `repeated`     *)
(* only records that a call has been made a second time.                   *)
(***************************************************************************)
EXTENDS Integers, Sequences, FiniteSets

VARIABLES
    cfg,        \* the HealthCheckConfig object: its eight attributes
    out,        \* per operation, the outcome of the most recent call
    repeated    \* the most recent call repeated the previous call of the
                \* same operation, with the same arguments

vars == <<cfg, out, repeated>>

---------------------------------------------------------------------------
(* Program constants.                                                      *)

\* attrib defaults of HealthCheckConfig
DefaultMaxContainerStartup == 30
DefaultTimeout == 5
DefaultCheckIntervalEcs == 10
DefaultCheckIntervalAlb == 30
DefaultNumChecksEcs == 2
DefaultNumChecksAlb == 5
DefaultEndpointPath == "/"
DefaultContainerPort == 8000

\* `grace_period = 10` in get_ecs_service_properties
GracePeriod == 10
\* the literal 30 added to min_time_to_unhealthy_alb in get_alb_config
RaceMargin == 30

---------------------------------------------------------------------------
(* Bounds of the explored configurations.                                  *)

\* every numeric field ranges over 0..MaxSmall and its default
MaxSmall == 1
\* ALB fields alone, over wider ranges (the other fields at their defaults)
MaxIntervalAlb == 13
MaxNumChecksAlb == 6
\* ECS fields alone, over wider ranges (the ALB fields at their defaults)
MaxEcs == 3
\* how far a field is raised when two configurations are compared
MaxDelta == 5

---------------------------------------------------------------------------
(* Values.                                                                 *)

\* An optional argument: <<>> is Python's None, <<v>> is the value v.
None == <<>>
Some(v) == <<v>>

\* aws_cdk.core.Duration.seconds(n)
DurationSeconds(n) == [unit |-> "seconds", amount |-> n]

Max(a, b) == IF a >= b THEN a ELSE b

\* Outcomes of a call.
NotCalled == [called |-> FALSE, raised |-> FALSE, args |-> <<>>, value |-> <<>>]
Return(v) == [raised |-> FALSE, value |-> <<v>>]
Raise(msg) == [raised |-> TRUE, value |-> <<[exception |-> "ValueError", message |-> msg]>>]

DefaultConfig ==
    [max_container_startup |-> DefaultMaxContainerStartup,
     timeout               |-> DefaultTimeout,
     check_interval_ecs    |-> DefaultCheckIntervalEcs,
     check_interval_alb    |-> DefaultCheckIntervalAlb,
     num_checks_ecs        |-> DefaultNumChecksEcs,
     num_checks_alb        |-> DefaultNumChecksAlb,
     endpoint_path         |-> DefaultEndpointPath,
     container_port        |-> DefaultContainerPort]

---------------------------------------------------------------------------
(* The derived bounds (properties of the class).                           *)

\* min_check_interval with the operands of the subtraction exchanged
min_check_interval_swapped(c) ==
    (Max(10, c.check_interval_alb) - 5 * c.check_interval_alb) \div 5

\* math.floor(check_interval_alb - max(2, check_interval_alb * 0.2)).
\* The quantity is computed in fifths: i - max(2, i/5) = (5i - max(10, i))/5,
\* and \div rounds towards minus infinity as math.floor does.  The double
\* precision evaluation of the source gives the same integer for every
\* interval up to 2,000,000 (0.2 is rounded up by 2^-54/5, far less than the
\* distance 1/5 of i - i/5 to the next integer).
min_check_interval(c) ==
    (5 * c.check_interval_alb - Max(10, c.check_interval_alb)) \div 5

min_time_to_unhealthy_alb(c) ==
    (c.num_checks_alb - 1) * min_check_interval(c)

\* actual_check_interval with the interval subtracted instead of added
actual_check_interval_minus(c) == (c.timeout + 1) - c.check_interval_ecs

actual_check_interval(c) == (c.timeout + 1) + c.check_interval_ecs

\* max_time_to_unhealthy_ecs without the wait for the first request
max_time_to_unhealthy_ecs_no_first_wait(c) ==
    c.max_container_startup + (c.num_checks_ecs - 1) * actual_check_interval(c)

max_time_to_unhealthy_ecs(c) ==
    LET max_time0 == c.max_container_startup
        max_time1 == max_time0 + actual_check_interval(c)
        max_time2 == max_time1 + (c.num_checks_ecs - 1) * actual_check_interval(c)
    IN  max_time2

---------------------------------------------------------------------------
(* The three getters, as functions from the object and the arguments to    *)
(* the outcome of the call.                                                *)

\* the value get_alb_config returns
AlbHealthCheck(c, protocol, port) ==
    [interval |-> DurationSeconds(c.check_interval_alb),
     path     |-> c.endpoint_path,
     port     |-> port,
     protocol |-> protocol,
     timeout  |-> DurationSeconds(c.timeout),
     unhealthy_threshold_count |-> c.num_checks_alb]

\* get_alb_config with the two checks in the other order
get_alb_config_race_first(c, protocol, port) ==
    IF (min_time_to_unhealthy_alb(c) + RaceMargin) < max_time_to_unhealthy_ecs(c)
    THEN Raise("Healthcheck timing means that the ALB might stop an unhealthy ECS task before ECS does, which is undesirable.")
    ELSE IF c.timeout >= c.check_interval_alb
    THEN Raise("Healthcheck timeout is longer than the ALB repeat interval")
    ELSE Return(AlbHealthCheck(c, protocol, port))

\* get_alb_config with <= in the race check
get_alb_config_le(c, protocol, port) ==
    IF c.timeout >= c.check_interval_alb
    THEN Raise("Healthcheck timeout is longer than the ALB repeat interval")
    ELSE IF (min_time_to_unhealthy_alb(c) + RaceMargin) <= max_time_to_unhealthy_ecs(c)
    THEN Raise("Healthcheck timing means that the ALB might stop an unhealthy ECS task before ECS does, which is undesirable.")
    ELSE Return(AlbHealthCheck(c, protocol, port))

get_alb_config(c, protocol, port) ==
    IF c.timeout >= c.check_interval_alb
    THEN Raise("Healthcheck timeout is longer than the ALB repeat interval")
    ELSE IF (min_time_to_unhealthy_alb(c) + RaceMargin) < max_time_to_unhealthy_ecs(c)
    THEN Raise("Healthcheck timing means that the ALB might stop an unhealthy ECS task before ECS does, which is undesirable.")
    ELSE Return(AlbHealthCheck(c, protocol, port))

\* f'wget -T {timeout} -O - "http://localhost:{container_port}{endpoint_path}"'
WgetCommand(c) ==
    [program |-> "wget", T |-> Some(c.timeout),
     url |-> Some([host |-> "localhost", port |-> c.container_port,
                   path |-> c.endpoint_path])]

\* a command string supplied by the caller
GivenCommand(text) == [program |-> text, T |-> None, url |-> None]

\* `not command`: None and the empty string are both falsy
IsFalsy(command) == command = None \/ command = Some("")

\* the command list of the returned health check
EcsCommand(c, command) ==
    LET cmd == IF IsFalsy(command) THEN WgetCommand(c)
               ELSE GivenCommand(command[1])
    IN  <<[base |-> cmd, suffix |-> " || exit 1"]>>

\* get_ecs_config comparing the container-level timeout (timeout + 1)
\* with the interval
get_ecs_config_docker_timeout(c, command) ==
    IF c.timeout + 1 >= c.check_interval_ecs
    THEN Raise("Healthcheck timeout is longer than the ECS repeat interval")
    ELSE Return([command      |-> EcsCommand(c, command),
                 interval     |-> DurationSeconds(c.check_interval_ecs),
                 retries      |-> c.num_checks_ecs,
                 start_period |-> DurationSeconds(c.max_container_startup),
                 timeout      |-> DurationSeconds(c.timeout + 1)])

\* get_ecs_config passing the HTTP timeout on unchanged
get_ecs_config_same_timeout(c, command) ==
    IF c.timeout >= c.check_interval_ecs
    THEN Raise("Healthcheck timeout is longer than the ECS repeat interval")
    ELSE Return([command      |-> EcsCommand(c, command),
                 interval     |-> DurationSeconds(c.check_interval_ecs),
                 retries      |-> c.num_checks_ecs,
                 start_period |-> DurationSeconds(c.max_container_startup),
                 timeout      |-> DurationSeconds(c.timeout)])

get_ecs_config(c, command) ==
    IF c.timeout >= c.check_interval_ecs
    THEN Raise("Healthcheck timeout is longer than the ECS repeat interval")
    ELSE Return([command      |-> EcsCommand(c, command),
                 interval     |-> DurationSeconds(c.check_interval_ecs),
                 retries      |-> c.num_checks_ecs,
                 start_period |-> DurationSeconds(c.max_container_startup),
                 timeout      |-> DurationSeconds(c.timeout + 1)])

\* get_ecs_service_properties with <= in the grace check
get_ecs_service_properties_le(c) ==
    LET grace_period == GracePeriod
    IN  IF min_time_to_unhealthy_alb(c) <= grace_period
        THEN Raise("The ECS grace period is too long, which means that ALB might mark a container as unhealthy at the same time as ECS.")
        ELSE Return([health_check_grace_period |-> DurationSeconds(grace_period)])

get_ecs_service_properties(c) ==
    LET grace_period == GracePeriod
    IN  IF min_time_to_unhealthy_alb(c) < grace_period
        THEN Raise("The ECS grace period is too long, which means that ALB might mark a container as unhealthy at the same time as ECS.")
        ELSE Return([health_check_grace_period |-> DurationSeconds(grace_period)])

---------------------------------------------------------------------------
(* The state machine: an object is constructed, then any sequence of calls *)
(* is made on it.                                                          *)

Ops == {"min_time_to_unhealthy_alb", "max_time_to_unhealthy_ecs",
        "get_alb_config", "get_ecs_config", "get_ecs_service_properties"}

\* (protocol, port) of a get_alb_config call: the defaults (ElbProtocol.HTTP,
\* None), and another protocol with a port of its own
AlbArgs == {<<"HTTP", None>>, <<"HTTPS", Some(8443)>>}
Commands == {None, Some(""), Some("healthcheck.sh")}

Small(default) == (0..MaxSmall) \cup {default}

\* every numeric field small or at its default
SmallConfigs ==
    {[DefaultConfig EXCEPT !.max_container_startup = s, !.timeout = t,
                           !.check_interval_ecs = ie, !.check_interval_alb = ia,
                           !.num_checks_ecs = ne, !.num_checks_alb = na] :
        s \in Small(DefaultMaxContainerStartup), t \in Small(DefaultTimeout),
        ie \in Small(DefaultCheckIntervalEcs), ia \in Small(DefaultCheckIntervalAlb),
        ne \in Small(DefaultNumChecksEcs), na \in Small(DefaultNumChecksAlb)}

\* the ALB fields over wider ranges
AlbConfigs ==
    {[DefaultConfig EXCEPT !.check_interval_alb = ia, !.num_checks_alb = na] :
        ia \in 0..MaxIntervalAlb, na \in 0..MaxNumChecksAlb}

\* the ECS fields over wider ranges
EcsConfigs ==
    {[DefaultConfig EXCEPT !.max_container_startup = s, !.timeout = t,
                           !.check_interval_ecs = ie, !.num_checks_ecs = ne] :
        s \in 0..MaxEcs, t \in 0..MaxEcs, ie \in 0..MaxEcs, ne \in 0..MaxEcs}

Configs == SmallConfigs \cup AlbConfigs \cup EcsConfigs

\* HealthCheckConfig(**kwargs): attrs stores the fields, nothing is validated
Init ==
    /\ cfg \in Configs
    /\ out = [op \in Ops |-> NotCalled]
    /\ repeated = FALSE

\* what a call of an operation with `args` and outcome `o` leaves behind
Outcome(args, o) ==
    [called |-> TRUE, raised |-> o.raised, args |-> args, value |-> o.value]

\* whether a call of `op` with `args` repeats the previous call of `op`
Repeats(op, args) == out[op].called /\ out[op].args = args

\* the property min_time_to_unhealthy_alb is read; self is not assigned
ReadMinTimeToUnhealthyAlb ==
    /\ out' = [out EXCEPT !["min_time_to_unhealthy_alb"] =
                  Outcome(<<>>, Return(min_time_to_unhealthy_alb(cfg)))]
    /\ repeated' = Repeats("min_time_to_unhealthy_alb", <<>>)
    /\ UNCHANGED cfg

\* the property max_time_to_unhealthy_ecs is read; self is not assigned
ReadMaxTimeToUnhealthyEcs ==
    /\ out' = [out EXCEPT !["max_time_to_unhealthy_ecs"] =
                  Outcome(<<>>, Return(max_time_to_unhealthy_ecs(cfg)))]
    /\ repeated' = Repeats("max_time_to_unhealthy_ecs", <<>>)
    /\ UNCHANGED cfg

CallGetAlbConfig(protocol, port) ==
    /\ out' = [out EXCEPT !["get_alb_config"] =
                  Outcome(<<protocol, port>>, get_alb_config(cfg, protocol, port))]
    /\ repeated' = Repeats("get_alb_config", <<protocol, port>>)
    /\ UNCHANGED cfg

\* get_ecs_config storing timeout + 1 in self.timeout
CallGetEcsConfig_assigns(command) ==
    /\ out' = [out EXCEPT !["get_ecs_config"] =
                  Outcome(<<command>>, get_ecs_config(cfg, command))]
    /\ repeated' = Repeats("get_ecs_config", <<command>>)
    /\ cfg' = [cfg EXCEPT !.timeout = @ + 1]

CallGetEcsConfig(command) ==
    /\ out' = [out EXCEPT !["get_ecs_config"] =
                  Outcome(<<command>>, get_ecs_config(cfg, command))]
    /\ repeated' = Repeats("get_ecs_config", <<command>>)
    /\ UNCHANGED cfg

CallGetEcsServiceProperties ==
    /\ out' = [out EXCEPT !["get_ecs_service_properties"] =
                  Outcome(<<>>, get_ecs_service_properties(cfg))]
    /\ repeated' = Repeats("get_ecs_service_properties", <<>>)
    /\ UNCHANGED cfg

Next ==
    \/ ReadMinTimeToUnhealthyAlb
    \/ ReadMaxTimeToUnhealthyEcs
    \/ \E a \in AlbArgs : CallGetAlbConfig(a[1], a[2])
    \/ \E command \in Commands : CallGetEcsConfig(command)
    \/ CallGetEcsServiceProperties

Spec == Init /\ [][Next]_vars

---------------------------------------------------------------------------
(* Reading the recorded outcomes.                                          *)

Called(op)   == out[op].called
Returned(op) == out[op].called /\ ~out[op].raised
Raised(op)   == out[op].called /\ out[op].raised
\* the returned value of the last call of op
Value(op)    == out[op].value[1]
\* the message of the ValueError raised by the last call of op
Message(op)  == out[op].value[1].message

Getters == {"get_alb_config", "get_ecs_config", "get_ecs_service_properties"}

TimeoutAlbMessage == "Healthcheck timeout is longer than the ALB repeat interval"
TimeoutEcsMessage == "Healthcheck timeout is longer than the ECS repeat interval"
RaceMessage == "Healthcheck timing means that the ALB might stop an unhealthy ECS task before ECS does, which is undesirable."

\* the config with one field raised by d
WithNumChecksAlb(c, d)   == [c EXCEPT !.num_checks_alb = @ + d]
WithIntervalAlb(c, d)    == [c EXCEPT !.check_interval_alb = @ + d]
WithNumChecksEcs(c, d)   == [c EXCEPT !.num_checks_ecs = @ + d]
WithIntervalEcs(c, d)    == [c EXCEPT !.check_interval_ecs = @ + d]
WithTimeout(c, d)        == [c EXCEPT !.timeout = @ + d]
WithStartup(c, d)        == [c EXCEPT !.max_container_startup = @ + d]

---------------------------------------------------------------------------
(* C1 *)

\* C1: whenever get_alb_config returns a configuration, the earliest time
\* ALB could mark the task unhealthy is strictly greater than the latest
\* time ECS could take: min_time_to_unhealthy_alb > max_time_to_unhealthy_ecs.
C1_AlbAcceptedImpliesEcsFirst ==
    Returned("get_alb_config") =>
        min_time_to_unhealthy_alb(cfg) > max_time_to_unhealthy_ecs(cfg)

---------------------------------------------------------------------------
(* C2 *)

\* C2 as stated: whenever get_ecs_service_properties returns, the returned
\* grace period is strictly shorter than min_time_to_unhealthy_alb.
C2_GraceStrictlyShorter ==
    Returned("get_ecs_service_properties") =>
        Value("get_ecs_service_properties").health_check_grace_period.amount
            < min_time_to_unhealthy_alb(cfg)

\* C2 as amended: get_ecs_service_properties returns exactly when
\* min_time_to_unhealthy_alb is at least 10, and the grace period it returns
\* is 10 seconds, which is not longer than min_time_to_unhealthy_alb
\* (equal to it when that bound is 10).
C2_GraceNotLonger ==
    Called("get_ecs_service_properties") =>
        /\ Returned("get_ecs_service_properties")
              <=> min_time_to_unhealthy_alb(cfg) >= 10
        /\ Returned("get_ecs_service_properties") =>
              /\ Value("get_ecs_service_properties")
                    = [health_check_grace_period |-> DurationSeconds(10)]
              /\ Value("get_ecs_service_properties").health_check_grace_period.amount
                    <= min_time_to_unhealthy_alb(cfg)

\* get_ecs_service_properties has returned for a config whose
\* min_time_to_unhealthy_alb is exactly 10
C2_Witness ==
    /\ Returned("get_ecs_service_properties")
    /\ min_time_to_unhealthy_alb(cfg) = 10

---------------------------------------------------------------------------
(* C3 *)

\* the four validation constraints of the class
ValidConfig(c) ==
    /\ c.timeout < c.check_interval_alb
    /\ c.timeout < c.check_interval_ecs
    /\ ~(min_time_to_unhealthy_alb(c) + 30 < max_time_to_unhealthy_ecs(c))
    /\ ~(min_time_to_unhealthy_alb(c) < 10)

\* C3: on a config that satisfies the two timeout constraints, the race
\* constraint and the grace constraint, none of get_alb_config,
\* get_ecs_config, get_ecs_service_properties raises, whichever of them
\* have been called and in whatever order.
C3_ValidConfigNeverRaises ==
    ValidConfig(cfg) => \A op \in Getters : Called(op) => Returned(op)

\* all three getters have returned on a valid config other than the default
C3_Witness ==
    /\ ValidConfig(cfg)
    /\ cfg # DefaultConfig
    /\ \A op \in Getters : Returned(op)

---------------------------------------------------------------------------
(* C4 *)

\* C4: for every config with timeout >= check_interval_alb, get_alb_config
\* raises the timeout-exceeds-interval error and returns nothing, whatever
\* the other fields are and whether or not the race check would fail too.
C4_AlbTimeoutRejected ==
    (Called("get_alb_config") /\ cfg.timeout >= cfg.check_interval_alb) =>
        /\ Raised("get_alb_config")
        /\ Message("get_alb_config") = TimeoutAlbMessage

\* get_alb_config was called with timeout equal to the interval, on a config
\* that fails the race check as well
C4_Witness ==
    /\ Raised("get_alb_config")
    /\ cfg.timeout = cfg.check_interval_alb
    /\ min_time_to_unhealthy_alb(cfg) + 30 < max_time_to_unhealthy_ecs(cfg)

---------------------------------------------------------------------------
(* C5 *)

\* C5: for every config with timeout < check_interval_alb, get_alb_config
\* raises the race-condition error iff min_time_to_unhealthy_alb + 30 <
\* max_time_to_unhealthy_ecs; otherwise (equality included) it returns a
\* configuration with interval = check_interval_alb, timeout = timeout,
\* path = endpoint_path, unhealthy threshold = num_checks_alb, and the
\* port and protocol it was given.
C5_AlbRaceCheck ==
    (Called("get_alb_config") /\ cfg.timeout < cfg.check_interval_alb) =>
        /\ Raised("get_alb_config") <=>
              min_time_to_unhealthy_alb(cfg) + 30 < max_time_to_unhealthy_ecs(cfg)
        /\ Raised("get_alb_config") => Message("get_alb_config") = RaceMessage
        /\ Returned("get_alb_config") =>
              Value("get_alb_config") =
                  [interval |-> DurationSeconds(cfg.check_interval_alb),
                   path     |-> cfg.endpoint_path,
                   port     |-> out["get_alb_config"].args[2],
                   protocol |-> out["get_alb_config"].args[1],
                   timeout  |-> DurationSeconds(cfg.timeout),
                   unhealthy_threshold_count |-> cfg.num_checks_alb]

\* get_alb_config has returned in the boundary case
\* min_time_to_unhealthy_alb + 30 = max_time_to_unhealthy_ecs
C5_Witness ==
    /\ Returned("get_alb_config")
    /\ cfg.timeout < cfg.check_interval_alb
    /\ min_time_to_unhealthy_alb(cfg) + 30 = max_time_to_unhealthy_ecs(cfg)

\* get_alb_config has raised the race-condition error
C5_WitnessRaised ==
    /\ Raised("get_alb_config")
    /\ cfg.timeout < cfg.check_interval_alb

---------------------------------------------------------------------------
(* C6 *)

Deltas == 0..MaxDelta

\* C6 as stated: min_time_to_unhealthy_alb never decreases when
\* num_checks_alb is raised, nor when check_interval_alb is raised, for all
\* non-negative values of both (num_checks_alb = 0 and check_interval_alb
\* in {0, 1, 2} included).
C6_MinTimeMonotone ==
    Called("min_time_to_unhealthy_alb") =>
        \A d \in Deltas :
            /\ Value("min_time_to_unhealthy_alb")
                  <= min_time_to_unhealthy_alb(WithNumChecksAlb(cfg, d))
            /\ Value("min_time_to_unhealthy_alb")
                  <= min_time_to_unhealthy_alb(WithIntervalAlb(cfg, d))

\* C6 as amended: min_time_to_unhealthy_alb never decreases when
\* num_checks_alb is raised provided check_interval_alb >= 2, and never
\* decreases when check_interval_alb is raised provided num_checks_alb >= 1.
C6_MinTimeMonotoneWhere ==
    Called("min_time_to_unhealthy_alb") =>
        \A d \in Deltas :
            /\ cfg.check_interval_alb >= 2 =>
                  Value("min_time_to_unhealthy_alb")
                      <= min_time_to_unhealthy_alb(WithNumChecksAlb(cfg, d))
            /\ cfg.num_checks_alb >= 1 =>
                  Value("min_time_to_unhealthy_alb")
                      <= min_time_to_unhealthy_alb(WithIntervalAlb(cfg, d))

\* the bound has been read on a config where raising either field by one
\* strictly raises it
C6_Witness ==
    /\ Called("min_time_to_unhealthy_alb")
    /\ cfg.check_interval_alb >= 2
    /\ cfg.num_checks_alb >= 1
    /\ Value("min_time_to_unhealthy_alb")
          < min_time_to_unhealthy_alb(WithNumChecksAlb(cfg, 1))
    /\ Value("min_time_to_unhealthy_alb")
          < min_time_to_unhealthy_alb(WithIntervalAlb(cfg, 1))

---------------------------------------------------------------------------
(* C7 *)

\* C7: max_time_to_unhealthy_ecs equals
\* max_container_startup + num_checks_ecs * ((timeout + 1) + check_interval_ecs)
\* and never decreases when one of num_checks_ecs, check_interval_ecs,
\* timeout, max_container_startup is raised with the others fixed.
C7_MaxTimeMonotone ==
    Called("max_time_to_unhealthy_ecs") =>
        /\ Value("max_time_to_unhealthy_ecs") =
              cfg.max_container_startup
                + cfg.num_checks_ecs * ((cfg.timeout + 1) + cfg.check_interval_ecs)
        /\ \A d \in Deltas :
              /\ Value("max_time_to_unhealthy_ecs")
                    <= max_time_to_unhealthy_ecs(WithNumChecksEcs(cfg, d))
              /\ Value("max_time_to_unhealthy_ecs")
                    <= max_time_to_unhealthy_ecs(WithIntervalEcs(cfg, d))
              /\ Value("max_time_to_unhealthy_ecs")
                    <= max_time_to_unhealthy_ecs(WithTimeout(cfg, d))
              /\ Value("max_time_to_unhealthy_ecs")
                    <= max_time_to_unhealthy_ecs(WithStartup(cfg, d))

\* the bound has been read on a config with num_checks_ecs = 0, where
\* raising the interval or the timeout leaves it unchanged and raising
\* num_checks_ecs raises it
C7_Witness ==
    /\ Called("max_time_to_unhealthy_ecs")
    /\ cfg.num_checks_ecs = 0
    /\ cfg.max_container_startup > 0
    /\ Value("max_time_to_unhealthy_ecs")
          = max_time_to_unhealthy_ecs(WithIntervalEcs(cfg, 1))
    /\ Value("max_time_to_unhealthy_ecs")
          < max_time_to_unhealthy_ecs(WithNumChecksEcs(cfg, 1))

---------------------------------------------------------------------------
(* C8 *)

\* C8: no call changes a field of the config, and a call of an operation
\* with the arguments of the previous call of that operation has the
\* outcome of that call (the same value, or the same error); hence in any
\* sequence of calls every call has the outcome of the first call made
\* with its arguments.
C8_Idempotent ==
    [][/\ cfg' = cfg
       /\ \A op \in Ops :
             (out[op].called /\ out'[op].args = out[op].args)
                 => out'[op] = out[op]]_vars

\* every operation has been called, and the last call repeated an earlier one
C8_Witness ==
    /\ repeated
    /\ \A op \in Ops : Called(op)
    /\ \E op \in Getters : Raised(op)
    /\ \E op \in Getters : Returned(op)

---------------------------------------------------------------------------
(* C9 *)

\* C9: with the default configuration min_time_to_unhealthy_alb is 96,
\* max_time_to_unhealthy_ecs is 62, and get_alb_config, get_ecs_config and
\* get_ecs_service_properties all return.
C9_Defaults ==
    cfg = DefaultConfig =>
        /\ Called("min_time_to_unhealthy_alb")
              => Value("min_time_to_unhealthy_alb") = 96
        /\ Called("max_time_to_unhealthy_ecs")
              => Value("max_time_to_unhealthy_ecs") = 62
        /\ \A op \in Getters : Called(op) => Returned(op)

\* all five operations have been used on the default configuration
C9_Witness ==
    /\ cfg = DefaultConfig
    /\ cfg.max_container_startup = 30 /\ cfg.timeout = 5
    /\ cfg.check_interval_ecs = 10 /\ cfg.check_interval_alb = 30
    /\ cfg.num_checks_ecs = 2 /\ cfg.num_checks_alb = 5
    /\ \A op \in Ops : Returned(op)

---------------------------------------------------------------------------
(* C10 *)

\* C10: get_ecs_config raises the timeout-exceeds-interval error iff
\* timeout >= check_interval_ecs, whatever the ALB fields are; when it
\* returns, interval = check_interval_ecs, retries = num_checks_ecs,
\* start period = max_container_startup, timeout = timeout + 1, and
\* start period + retries * (timeout + interval) of the returned
\* configuration equals max_time_to_unhealthy_ecs.
C10_EcsConfig ==
    Called("get_ecs_config") =>
        /\ Raised("get_ecs_config") <=> cfg.timeout >= cfg.check_interval_ecs
        /\ Raised("get_ecs_config") => Message("get_ecs_config") = TimeoutEcsMessage
        /\ Returned("get_ecs_config") =>
              LET r == Value("get_ecs_config") IN
              /\ r.interval = DurationSeconds(cfg.check_interval_ecs)
              /\ r.retries = cfg.num_checks_ecs
              /\ r.start_period = DurationSeconds(cfg.max_container_startup)
              /\ r.timeout = DurationSeconds(cfg.timeout + 1)
              /\ r.start_period.amount
                    + r.retries * (r.timeout.amount + r.interval.amount)
                  = max_time_to_unhealthy_ecs(cfg)

\* get_ecs_config has returned on a config that both get_alb_config and
\* get_ecs_service_properties reject
C10_Witness ==
    /\ Returned("get_ecs_config")
    /\ Raised("get_alb_config")
    /\ Raised("get_ecs_service_properties")

\* get_ecs_config has raised on a config that both get_alb_config and
\* get_ecs_service_properties accept
C10_WitnessRaised ==
    /\ Raised("get_ecs_config")
    /\ Returned("get_alb_config")
    /\ Returned("get_ecs_service_properties")

===========================================================================
